---- MODULE Spec2Model ----
(***************************************************************************)
(* ChromosomeWindowStream (genesis/population/window):                     *)
(* the outer iterator DerivedIterator over the chromosomes of a record     *)
(* stream, and the get_element closure of the WindowView it yields.        *)
(*                                                                         *)
(* The record stream and the sequence dictionary are inputs, drawn in Init *)
(* from bounded sets and never changed afterwards.  Each handler of the    *)
(* iterator (begin, operator++, get_element) is one action.                *)
(***************************************************************************)
EXTENDS Integers, Sequences, FiniteSets, TLC

\* ---------------------------------------------------------------------------
\*     Bounds of the model
\* ---------------------------------------------------------------------------

\* Longest record stream.
MaxLen == 3

\* Largest position carried by a record.
MaxPos == 2

\* Largest chromosome length listed in a sequence dictionary.
MaxDictLen == 2

\* Longest byte string given to base64_encode.
MaxBytes == 3

\* Largest line_length given to base64_encode.
MaxLineLength == 4

\* ---------------------------------------------------------------------------
\*     Inputs
\* ---------------------------------------------------------------------------

\* The chromosome name of a default-constructed WindowView (empty std::string).
DefaultChromosome == ""

\* Chromosome names used by the records: the empty name and two others.
Chromosomes == {DefaultChromosome, "chr1", "chr2"}

\* Positions are strictly positive.
Positions == 1..MaxPos

\* A record of the input stream, as seen through the functors.
Records == [chromosome : Chromosomes, position : Positions]

\* The code compares chromosome names only for equality, and the only name
\* it holds itself is the empty one: exchanging "chr1" and "chr2" in a stream
\* and its dictionary gives the same behaviour with the names exchanged. Of
\* two such streams the one that uses "chr1" first is kept.
FirstUseInOrder(s) ==
    \A i \in 1..Len(s) :
        s[i].chromosome = "chr2" => \E j \in 1..(i - 1) : s[j].chromosome = "chr1"

\* All record streams up to the bound, valid or not.
Streams ==
    {s \in UNION {[1..n -> Records] : n \in 0..MaxLen} : FirstUseInOrder(s)}

\* sequence_dict_: a null shared_ptr, or a dictionary from some chromosomes
\* to their lengths.
NoDict == [set |-> FALSE, length |-> <<>>]

\* The dictionaries over the chromosomes N. Entries for chromosomes that do
\* not occur in the stream are never looked up, so that the dictionaries
\* over the chromosomes of the stream stand for all of them.
SequenceDicts(N) ==
    {NoDict} \cup
    {[set |-> TRUE, length |-> f] :
        f \in UNION {[D -> 1..MaxDictLen] : D \in SUBSET N}}

VARIABLES
    stream,                 \* the records between begin_ and end_ of the stream
    sequence_dict_,         \* ChromosomeWindowStream::sequence_dict_
    phase,                  \* "constructed": begin() not called yet; "iterating";
                            \* "destroyed": the iterator's constructor threw;
                            \* "undefined": undefined behaviour has been executed
    current_,               \* BaseIterator::current_, as an index into stream
    parent_,                \* DerivedIterator::parent_ is not nullptr
    window_,                \* DerivedIterator::window_ (chromosome and bounds)
    get_element,            \* window_.get_element: the closure and its captures
    processed_chromosomes_, \* DerivedIterator::processed_chromosomes_
    is_first_window_,       \* BaseIterator::is_first_window_
    is_last_window_,        \* BaseIterator::is_last_window_
    result,                 \* what the last call did: its outcome and the record returned
    views,                  \* chromosomes of the views opened so far, in order
    opened,                 \* index of the record the current view was opened on
    returned,               \* indices of the records returned by the current view
    done,                   \* the current view has returned the sentinel
    abandoned,              \* some view was left before its sentinel
    failed,                 \* some call has raised an error
    raised,                 \* the errors raised so far
    broken,                 \* a pull of the current view has raised an error
    input,                  \* base64: the bytes given to base64_encode
    line_length,            \* base64: the line_length given to base64_encode
    char_is_signed,         \* base64: char is a signed type in this build
    encoded,                \* base64: the string returned by base64_encode
    decoded,                \* base64: the bytes returned by base64_decode_string
    base64                  \* base64: the last call made and how it ended

\* The variables of the chromosome stream and of the base64 functions.
stream_vars == <<stream, sequence_dict_, phase, current_, parent_, window_, get_element,
                 processed_chromosomes_, is_first_window_, is_last_window_,
                 result, views, opened, returned, done, abandoned, failed, raised, broken>>

base64_vars == <<input, line_length, char_is_signed, encoded, decoded, base64>>

vars == <<stream_vars, base64_vars>>

\* ---------------------------------------------------------------------------
\*     Functors and helpers
\* ---------------------------------------------------------------------------

\* end_ of the underlying stream, as an index.
end_ == Len(stream) + 1

chromosome_function(r) == r.chromosome

position_function(r) == r.position

\* A default-constructed WindowView: no chromosome, no bounds.
DefaultWindow ==
    [chromosome |-> DefaultChromosome, first_position |-> 0, last_position |-> 0]

\* A default-constructed (empty) get_element functor.
NoElementFunction == [set |-> FALSE, is_first |-> FALSE, chr |-> DefaultChromosome]

\* parent_ of end(): the iterator constructed from nullptr.
EndIteratorParent == FALSE

\* Outcomes of a call.
Errors == {"DuplicateChromosome", "UnknownChromosome",
           "OutOfOrderPosition", "ChromosomeLengthExceeded"}

NoResult == [op |-> "none", out |-> "none", rec |-> 0]

\* ---------------------------------------------------------------------------
\*     DerivedIterator::increment_
\* ---------------------------------------------------------------------------

\* Mutant: the skip loop is missing.
SkipChromosome_None(c, name) == c

\* Mutant: the skip loop moves the cursor before it looks at the record.
RECURSIVE SkipChromosome_DoWhile(_, _)
SkipChromosome_DoWhile(c, name) ==
    IF c = end_ THEN c
    ELSE IF c + 1 # end_ /\ chromosome_function(stream[c + 1]) = name
         THEN SkipChromosome_DoWhile(c + 1, name)
         ELSE c + 1

\* The skip loop: move c past every record of the chromosome `name`.
RECURSIVE SkipChromosome(_, _)
SkipChromosome(c, name) ==
    IF c # end_ /\ chromosome_function(stream[c]) = name
    THEN SkipChromosome(c + 1, name)
    ELSE c

\* The chromosome was already inserted into the set of processed chromosomes.
ChromosomeRepeated(chr, processed) == chr \in processed

\* Mutant: a chromosome missing in the dictionary is not reported; its
\* window gets the placeholder bounds instead.
ResetWindow_NoThrow(chr) ==
    IF sequence_dict_.set /\ chr \in DOMAIN sequence_dict_.length
    THEN [thrown |-> FALSE,
          window |-> [chromosome |-> chr, first_position |-> 1,
                      last_position |-> sequence_dict_.length[chr]]]
    ELSE [thrown |-> FALSE,
          window |-> [chromosome |-> chr, first_position |-> 1, last_position |-> 1]]

\* Mutant: without a dictionary only the last position is set.
ResetWindow_NoFirst(chr) ==
    IF sequence_dict_.set
    THEN IF chr \notin DOMAIN sequence_dict_.length
         THEN [thrown |-> TRUE,
               window |-> [DefaultWindow EXCEPT !.chromosome = chr]]
         ELSE [thrown |-> FALSE,
               window |-> [chromosome |-> chr, first_position |-> 1,
                           last_position |-> sequence_dict_.length[chr]]]
    ELSE [thrown |-> FALSE,
          window |-> [chromosome |-> chr, first_position |-> 0, last_position |-> 1]]

\* The window is reset for the chromosome chr and gets its bounds: from the
\* dictionary if there is one (an exception is thrown if chr is missing
\* there, after the reset), the placeholder 1..1 otherwise.
ResetWindow(chr) ==
    IF sequence_dict_.set
    THEN IF chr \notin DOMAIN sequence_dict_.length
         THEN [thrown |-> TRUE,
               window |-> [DefaultWindow EXCEPT !.chromosome = chr]]
         ELSE [thrown |-> FALSE,
               window |-> [chromosome |-> chr, first_position |-> 1,
                           last_position |-> sequence_dict_.length[chr]]]
    ELSE [thrown |-> FALSE,
          window |-> [chromosome |-> chr, first_position |-> 1, last_position |-> 1]]

\* Mutant: the closure captures the chromosome of the window as it is before
\* the reset.
NewElementFunction_Stale(chr) ==
    [set |-> TRUE, is_first |-> TRUE, chr |-> window_.chromosome]

\* The closure installed into a new window: is_first = true, chr by copy.
NewElementFunction(chr) == [set |-> TRUE, is_first |-> TRUE, chr |-> chr]

\* Mutant: parent_ is not reset at the end of the data.
Exhausted_ParentKept(c, w, g, p) ==
    [current |-> c, parent |-> TRUE, window |-> w, get_element |-> g,
     processed |-> p, out |-> "exhausted"]

\* No data is left: parent_ is reset, which makes the iterator equal to end().
Exhausted(c, w, g, p) ==
    [current |-> c, parent |-> FALSE, window |-> w, get_element |-> g,
     processed |-> p, out |-> "exhausted"]

\* Mutant: the name inserted is that of the window that is being left, so
\* that a chromosome is recorded when its run ends.
InsertProcessed_Previous(p, chr) == p \cup {window_.chromosome}

\* processed_chromosomes_.insert( chr )
InsertProcessed(p, chr) == p \cup {chr}

\* Mutant: the repetition is detected after the window has been reset.
DuplicateThrown_AfterReset(c, w, g, p) ==
    [current |-> c, parent |-> TRUE,
     window |-> [DefaultWindow EXCEPT !.chromosome = chromosome_function(stream[c])],
     get_element |-> NoElementFunction,
     processed |-> p, out |-> "DuplicateChromosome"]

\* The chromosome under the cursor is repeated: std::runtime_error is thrown
\* before the set, the window and its closure are touched.
DuplicateThrown(c, w, g, p) ==
    [current |-> c, parent |-> TRUE, window |-> w, get_element |-> g,
     processed |-> p, out |-> "DuplicateChromosome"]

\* Mutant: the constructor marks the window as first window only.
ConstructorFlags_NotLast == [is_first_window |-> TRUE, is_last_window |-> FALSE]

\* The flags set by the constructor of the iterator.
ConstructorFlags == [is_first_window |-> TRUE, is_last_window |-> TRUE]

\* increment_() called with the cursor at c, the window w, its closure g and
\* the processed set p: the members after the call, and how the call ended
\* ("view": a new window is installed; "exhausted": parent_ is reset;
\* otherwise the exception thrown, with the members as they are at the throw).
increment_(c, w, g, p) ==
    LET c1  == SkipChromosome(c, w.chromosome)
        chr == chromosome_function(stream[c1])
    IN  IF c1 = end_
        THEN Exhausted(c1, w, g, p)
        ELSE IF ChromosomeRepeated(chr, p)
        THEN DuplicateThrown(c1, w, g, p)
        ELSE IF ResetWindow(chr).thrown
        THEN [current |-> c1, parent |-> TRUE, window |-> ResetWindow(chr).window,
              get_element |-> NoElementFunction,
              processed |-> InsertProcessed(p, chr), out |-> "UnknownChromosome"]
        ELSE [current |-> c1, parent |-> TRUE, window |-> ResetWindow(chr).window,
              get_element |-> NewElementFunction(chr),
              processed |-> InsertProcessed(p, chr), out |-> "view"]

\* ---------------------------------------------------------------------------
\*     The get_element closure of the window
\* ---------------------------------------------------------------------------

\* Mutant: only the end of the stream ends a chromosome.
EndOfChromosome_StreamOnly(c, chr) == c = end_

\* After moving the cursor to c: the chromosome chr is finished.
EndOfChromosome(c, chr) ==
    c = end_ \/ chromosome_function(stream[c]) # chr

\* Mutant: the comparison of the safety check is reversed.
LengthExceeded_Reversed(old_pos, chr) ==
    sequence_dict_.set /\ old_pos < sequence_dict_.length[chr]

\* Mutant: a position equal to the length is rejected as well.
LengthExceeded_OrEqual(old_pos, chr) ==
    sequence_dict_.set /\ old_pos >= sequence_dict_.length[chr]

\* Mutant: the safety check is missing.
LengthExceeded_Never(old_pos, chr) == FALSE

\* The safety check at the end of a chromosome against the dictionary.
LengthExceeded(old_pos, chr) ==
    sequence_dict_.set /\ old_pos > sequence_dict_.length[chr]

\* Mutant: the comparison of the order check is reversed.
OrderViolated_Reversed(old_pos, new_pos) == old_pos <= new_pos

\* Mutant: equal positions pass the order check.
OrderViolated_Strict(old_pos, new_pos) == old_pos > new_pos

\* The order check of two successive positions of a chromosome.
OrderViolated(old_pos, new_pos) == old_pos >= new_pos

\* Mutant: the last position is not updated at the end of the chromosome.
FinalLastPosition_Kept(w, old_pos) == w.last_position

\* The last position of the window after its chromosome has ended at old_pos.
FinalLastPosition(w, old_pos) ==
    IF ~ sequence_dict_.set THEN old_pos ELSE w.last_position

\* Mutant: the first call moves the cursor as the later ones do.
FirstElement_Advanced(c, w, g) ==
    [current |-> c + 1, window |-> w, get_element |-> [g EXCEPT !.is_first = FALSE],
     out |-> "record", rec |-> c + 1]

\* The first call of the closure: the element under the cursor, which stays.
FirstElement(c, w, g) ==
    [current |-> c, window |-> w, get_element |-> [g EXCEPT !.is_first = FALSE],
     out |-> "record", rec |-> c]

\* One call of the closure g with the cursor at c # end_ and the window w:
\* the cursor, window and closure after the call, its outcome ("record",
\* "sentinel" for nullptr, or the exception thrown), and the index of the
\* record it returns a pointer to (0 if none).
pull_(c, w, g) ==
    IF g.is_first
    THEN FirstElement(c, w, g)
    ELSE
    LET old_pos == position_function(stream[c])
        c1      == c + 1
    IN  IF EndOfChromosome(c1, g.chr)
        THEN IF LengthExceeded(old_pos, g.chr)
             THEN [current |-> c1, window |-> w, get_element |-> g,
                   out |-> "ChromosomeLengthExceeded", rec |-> 0]
             ELSE [current |-> c1,
                   window |-> [w EXCEPT !.last_position = FinalLastPosition(w, old_pos)],
                   get_element |-> g, out |-> "sentinel", rec |-> 0]
        ELSE IF OrderViolated(old_pos, position_function(stream[c1]))
        THEN [current |-> c1, window |-> w, get_element |-> g,
              out |-> "OutOfOrderPosition", rec |-> 0]
        ELSE [current |-> c1, window |-> w, get_element |-> g,
              out |-> "record", rec |-> c1]

\* ---------------------------------------------------------------------------
\*     base64_encode_ and base64_decode_ (utils/io/base64.cpp)
\* ---------------------------------------------------------------------------

\* Characters are their ASCII codes.
base64_pad_char_ == 61

NewLine == 10

\* base64_encode_lookup_[i]: "A-Za-z0-9+/".
base64_encode_lookup_(i) ==
    IF i < 26 THEN 65 + i
    ELSE IF i < 52 THEN 97 + (i - 26)
    ELSE IF i < 62 THEN 48 + (i - 52)
    ELSE IF i = 62 THEN 43
    ELSE 47

\* utils::is_space: tab, new line, vertical tab, form feed, carriage return
\* and space.
is_space(c) == c \in {9, 10, 11, 12, 13, 32}

\* The byte values used in the inputs: 0x00, 'M' and 0xFF.
ByteValues == {0, 77, 255}

\* All byte strings up to the bound.
ByteStrings == UNION {[1..n -> ByteValues] : n \in 0..MaxBytes}

\* line_length: 0 for no wrapping.
LineLengths == 0..MaxLineLength

\* The value of the element *it of a std::string after integral promotion:
\* negative for bytes above 0x7F where char is signed.
Promoted(b, signed) == IF signed /\ b >= 128 THEN b - 256 ELSE b

\* The left shift of a negative int is undefined: it is made by
\* base64_encode_ for a std::string with a byte above 0x7F where char is
\* signed.
NegativeShift(bytes, signed) ==
    signed /\ \E k \in 1..Len(bytes) : bytes[k] >= 128

\* The bits 0..23 of temp, the only ones that are read: std::uint32_t
\* arithmetic, reduced modulo 2^24.
Low24(t) == t % 16777216

\* put_char: append c, count it, and append a new line after every
\* line_length characters.
put_char(e, c, len) ==
    LET n == e.out_cnt + 1
        s == Append(e.encoded, c)
    IN  [encoded |-> IF len > 0 /\ n % len = 0 THEN Append(s, NewLine) ELSE s,
         out_cnt |-> n]

\* The four characters of a full group of three bytes.
EncodeGroup(e, temp, len) ==
    LET e1 == put_char(e,  base64_encode_lookup_((temp \div 262144) % 64), len)
        e2 == put_char(e1, base64_encode_lookup_((temp \div 4096) % 64), len)
        e3 == put_char(e2, base64_encode_lookup_((temp \div 64) % 64), len)
    IN  put_char(e3, base64_encode_lookup_(temp % 64), len)

\* The last group, of two bytes (one pad character) or one byte (two).
EncodeRest(e, bytes, it, len, signed) ==
    LET n == Len(bytes) % 3
    IN  IF n = 2
        THEN LET temp == Low24(Promoted(bytes[it], signed) * 65536
                               + Promoted(bytes[it + 1], signed) * 256)
                 e1 == put_char(e,  base64_encode_lookup_((temp \div 262144) % 64), len)
                 e2 == put_char(e1, base64_encode_lookup_((temp \div 4096) % 64), len)
                 e3 == put_char(e2, base64_encode_lookup_((temp \div 64) % 64), len)
             IN  put_char(e3, base64_pad_char_, len)
        ELSE IF n = 1
        THEN LET temp == Low24(Promoted(bytes[it], signed) * 65536)
                 e1 == put_char(e,  base64_encode_lookup_((temp \div 262144) % 64), len)
                 e2 == put_char(e1, base64_encode_lookup_((temp \div 4096) % 64), len)
                 e3 == put_char(e2, base64_pad_char_, len)
             IN  put_char(e3, base64_pad_char_, len)
        ELSE e

\* The main loop over the full groups, from group i on, then the rest.
RECURSIVE EncodeFrom(_, _, _, _, _)
EncodeFrom(e, bytes, i, len, signed) ==
    IF i < Len(bytes) \div 3
    THEN LET it   == 3 * i + 1
             temp == Low24(Promoted(bytes[it], signed) * 65536
                           + Promoted(bytes[it + 1], signed) * 256
                           + Promoted(bytes[it + 2], signed))
         IN  EncodeFrom(EncodeGroup(e, temp, len), bytes, i + 1, len, signed)
    ELSE EncodeRest(e, bytes, 3 * i + 1, len, signed)

\* base64_encode_( input, line_length ): the string returned.
base64_encode_(bytes, len, signed) ==
    EncodeFrom([encoded |-> <<>>, out_cnt |-> 0], bytes, 0, len, signed).encoded

\* char_cnt: the number of characters of s that are not spaces.
RECURSIVE CharCount(_)
CharCount(s) ==
    IF s = <<>> THEN 0
    ELSE (IF is_space(Head(s)) THEN 0 ELSE 1) + CharCount(Tail(s))

\* The value of a character of the base64 alphabet, -1 for any other.
DecodeValue(c) ==
    IF c >= 65 /\ c <= 90 THEN c - 65
    ELSE IF c >= 97 /\ c <= 122 THEN c - 71
    ELSE IF c >= 48 /\ c <= 57 THEN c + 4
    ELSE IF c = 43 THEN 62
    ELSE IF c = 47 THEN 63
    ELSE -1

\* switch( input.end() - it ) at a pad character: the number of characters
\* from the pad character to the end of the input, new lines included.
PadCase(s, it) == Len(s) + 1 - it

\* The decoding loop at character i of a group of four, with the iterator at
\* it, the accumulator temp and the bytes dec decoded so far. "past_the_end"
\* stands for the read of *it with it == input.end(), reached by skipping
\* the spaces at the end of the input: undefined behaviour.
RECURSIVE DecodeChar(_, _, _, _, _)
DecodeChar(s, it, i, temp, dec) ==
    IF i = 4
    THEN LET d == dec \o << (temp \div 65536) % 256, (temp \div 256) % 256, temp % 256 >>
         IN  IF it < Len(s) + 1
             THEN DecodeChar(s, it, 0, temp, d)
             ELSE [out |-> "ok", decoded |-> d]
    ELSE IF it > Len(s)
    THEN [out |-> "past_the_end", decoded |-> dec]
    ELSE IF is_space(s[it])
    THEN DecodeChar(s, it + 1, i, temp, dec)
    ELSE LET t == Low24(temp * 64)
         IN  IF DecodeValue(s[it]) >= 0
             THEN DecodeChar(s, it + 1, i + 1, t + DecodeValue(s[it]), dec)
             ELSE IF s[it] = base64_pad_char_
             THEN IF PadCase(s, it) = 1
                  THEN [out |-> "ok",
                        decoded |-> dec \o << (t \div 65536) % 256, (t \div 256) % 256 >>]
                  ELSE IF PadCase(s, it) = 2
                  THEN [out |-> "ok", decoded |-> Append(dec, (t \div 1024) % 256)]
                  ELSE [out |-> "InvalidPadding", decoded |-> dec]
             ELSE [out |-> "InvalidCharacter", decoded |-> dec]

\* base64_decode_( input ): how the call ends and the bytes decoded. The
\* padding counted for the reservation of the result has no effect on the
\* value returned (assertions are compiled out).
base64_decode_(s) ==
    IF Len(s) = 0 THEN [out |-> "ok", decoded |-> <<>>]
    ELSE IF CharCount(s) % 4 # 0 THEN [out |-> "InvalidLength", decoded |-> <<>>]
    ELSE DecodeChar(s, 1, 0, 0, <<>>)

\* What a build can make of the read of *input.end(): the terminator of the
\* string, which is not a base64 character, or a stop by a checked iterator.
PastTheEndOutcomes == {"InvalidCharacter", "abort"}

\* No base64 call has been made and none will be.
Base64Idle ==
    /\ input = <<>>
    /\ line_length = 0
    /\ char_is_signed = FALSE
    /\ encoded = <<>>
    /\ decoded = <<>>
    /\ base64 = [op |-> "idle", out |-> "none", undefined |-> FALSE]

\* ---------------------------------------------------------------------------
\*     State machine
\* ---------------------------------------------------------------------------

\* The stream object has been constructed and configured; begin() has not
\* been called yet.
Init ==
    /\ stream \in Streams
    /\ sequence_dict_ \in SequenceDicts({stream[i].chromosome : i \in 1..Len(stream)})
    /\ phase = "constructed"
    /\ current_ = 1
    /\ parent_ = FALSE
    /\ window_ = DefaultWindow
    /\ get_element = NoElementFunction
    /\ processed_chromosomes_ = {}
    /\ is_first_window_ = FALSE
    /\ is_last_window_ = FALSE
    /\ result = NoResult
    /\ views = <<>>
    /\ opened = 0
    /\ returned = <<>>
    /\ done = FALSE
    /\ abandoned = FALSE
    /\ failed = FALSE
    /\ raised = {}
    /\ broken = FALSE
    /\ Base64Idle

\* The members and the record of what happened, after increment_() ended as r.
Incremented(op, r) ==
    /\ current_' = r.current
    /\ parent_' = r.parent
    /\ window_' = r.window
    /\ get_element' = r.get_element
    /\ processed_chromosomes_' = r.processed
    /\ result' = [op |-> op, out |-> r.out, rec |-> 0]
    /\ views' = IF r.out = "view" THEN Append(views, r.window.chromosome) ELSE views
    /\ opened' = IF r.out = "view" THEN r.current ELSE opened
    /\ returned' = IF r.out \in {"view", "UnknownChromosome"} THEN <<>> ELSE returned
    /\ done' = IF r.out \in {"view", "UnknownChromosome"} THEN FALSE ELSE done
    /\ failed' = (failed \/ r.out \in Errors)
    /\ raised' = IF r.out \in Errors THEN raised \cup {r.out} ELSE raised
    /\ broken' = IF r.out \in {"view", "UnknownChromosome"} THEN FALSE ELSE broken

\* begin(): DerivedIterator( this ), which sets the flags and calls
\* increment_(). An exception leaves no iterator behind.
Begin ==
    /\ phase = "constructed"
    /\ LET r == increment_(1, DefaultWindow, NoElementFunction, {})
       IN  /\ Incremented("begin", r)
           /\ phase' = IF r.out \in Errors THEN "destroyed" ELSE "iterating"
    /\ is_first_window_' = ConstructorFlags.is_first_window
    /\ is_last_window_' = ConstructorFlags.is_last_window
    /\ UNCHANGED <<stream, sequence_dict_, abandoned>>
    /\ UNCHANGED base64_vars

\* operator++ of the iterator: increment_() on an iterator that is not
\* past the end.
Advance ==
    /\ phase = "iterating"
    /\ parent_
    /\ Incremented("advance",
                   increment_(current_, window_, get_element, processed_chromosomes_))
    /\ abandoned' = (abandoned \/ (get_element.set /\ ~ done))
    /\ UNCHANGED <<stream, sequence_dict_, phase, is_first_window_, is_last_window_>>
    /\ UNCHANGED base64_vars

\* A call of window_.get_element.
\*  - An empty functor throws std::bad_function_call.
\*  - With the cursor at end_ the closure dereferences end_ (is_first) or
\*    reads and increments it: undefined behaviour, any outcome.
\*  - Otherwise the closure runs as written.
Pull ==
    /\ phase = "iterating"
    /\ IF ~ get_element.set
       THEN /\ result' = [op |-> "pull", out |-> "bad_function_call", rec |-> 0]
            /\ failed' = TRUE
            /\ raised' = raised \cup {"bad_function_call"}
            /\ UNCHANGED <<phase, current_, window_, get_element, returned, done, broken>>
       ELSE IF current_ = end_
       THEN /\ phase' = "undefined"
            /\ \E out \in {"abort", "record", "sentinel"} :
                   result' = [op |-> "pull", out |-> out, rec |-> 0]
            /\ current_' \in {end_, end_ + 1}
            /\ \E l \in 0..MaxPos : window_' = [window_ EXCEPT !.last_position = l]
            /\ UNCHANGED <<get_element, returned, done, failed, raised, broken>>
       ELSE LET r == pull_(current_, window_, get_element)
            IN  /\ current_' = r.current
                /\ window_' = r.window
                /\ get_element' = r.get_element
                /\ result' = [op |-> "pull", out |-> r.out, rec |-> r.rec]
                /\ returned' = IF r.out = "record" THEN Append(returned, r.rec) ELSE returned
                /\ done' = (done \/ r.out = "sentinel")
                /\ failed' = (failed \/ r.out \in Errors)
                /\ raised' = IF r.out \in Errors THEN raised \cup {r.out} ELSE raised
                /\ broken' = (broken \/ r.out \in Errors)
                /\ UNCHANGED phase
    /\ UNCHANGED <<stream, sequence_dict_, parent_, processed_chromosomes_,
                   is_first_window_, is_last_window_, views, opened, abandoned>>
    /\ UNCHANGED base64_vars

\* The consumer of the documented protocol: it pulls the current view at most
\* until its sentinel, advances only an iterator that is not at its end, and
\* stops the traversal at the first error.
ConsumerPull ==
    /\ parent_
    /\ ~ failed
    /\ ~ done
    /\ Pull

ConsumerAdvance ==
    /\ ~ failed
    /\ Advance

Next == Begin \/ ConsumerAdvance \/ ConsumerPull

Spec == Init /\ [][Next]_vars

\* Any caller: it may pull a view after its sentinel and go on after an
\* error; only operator++ on an iterator at its end is left out.
NextAny == Begin \/ Advance \/ Pull

SpecAny == Init /\ [][NextAny]_vars

\* The base64 functions: a byte string and a line length are chosen, the
\* string is encoded, and the result is decoded. No chromosome stream exists.
InitBase64 ==
    /\ input \in ByteStrings
    /\ line_length \in LineLengths
    /\ char_is_signed \in BOOLEAN
    /\ encoded = <<>>
    /\ decoded = <<>>
    /\ base64 = [op |-> "none", out |-> "none", undefined |-> FALSE]
    /\ stream = <<>>
    /\ sequence_dict_ = NoDict
    /\ phase = "destroyed"
    /\ current_ = 1
    /\ parent_ = FALSE
    /\ window_ = DefaultWindow
    /\ get_element = NoElementFunction
    /\ processed_chromosomes_ = {}
    /\ is_first_window_ = FALSE
    /\ is_last_window_ = FALSE
    /\ result = NoResult
    /\ views = <<>>
    /\ opened = 0
    /\ returned = <<>>
    /\ done = FALSE
    /\ abandoned = FALSE
    /\ failed = FALSE
    /\ raised = {}
    /\ broken = FALSE

\* base64_encode( std::string const& input, line_length ). Shifting a
\* negative char is undefined: the build either computes in two's complement
\* or traps.
Base64Encode ==
    /\ base64.op = "none"
    /\ IF NegativeShift(input, char_is_signed)
       THEN \/ /\ encoded' = base64_encode_(input, line_length, TRUE)
               /\ base64' = [op |-> "encode", out |-> "ok", undefined |-> TRUE]
            \/ /\ encoded' = <<>>
               /\ base64' = [op |-> "encode", out |-> "abort", undefined |-> TRUE]
       ELSE /\ encoded' = base64_encode_(input, line_length, char_is_signed)
            /\ base64' = [op |-> "encode", out |-> "ok", undefined |-> FALSE]
    /\ UNCHANGED <<input, line_length, char_is_signed, decoded>>
    /\ UNCHANGED stream_vars

\* base64_decode_string( encoded ), on the string returned by the encoder.
\* A call that throws returns nothing.
Base64Decode ==
    /\ base64.op = "encode"
    /\ base64.out = "ok"
    /\ LET r == base64_decode_(encoded)
       IN  /\ decoded' = IF r.out = "ok" THEN r.decoded ELSE <<>>
           /\ IF r.out = "past_the_end"
              THEN \E o \in PastTheEndOutcomes :
                       base64' = [op |-> "decode", out |-> o, undefined |-> TRUE]
              ELSE base64' = [op |-> "decode", out |-> r.out,
                              undefined |-> base64.undefined]
    /\ UNCHANGED <<input, line_length, char_is_signed, encoded>>
    /\ UNCHANGED stream_vars

NextBase64 == Base64Encode \/ Base64Decode

SpecBase64 == InitBase64 /\ [][NextBase64]_vars

TypeOK ==
    /\ stream \in Streams
    /\ sequence_dict_ \in SequenceDicts(Chromosomes)
    /\ phase \in {"constructed", "iterating", "destroyed", "undefined"}
    /\ current_ \in 1..(end_ + 1)
    /\ parent_ \in BOOLEAN
    /\ window_.chromosome \in Chromosomes
    /\ get_element.set \in BOOLEAN
    /\ processed_chromosomes_ \subseteq Chromosomes
    /\ done \in BOOLEAN

\* ---------------------------------------------------------------------------
\*     Runs of the record stream
\* ---------------------------------------------------------------------------

\* Record i is the first record of a run.
RunStart(i) ==
    i = 1 \/ chromosome_function(stream[i]) # chromosome_function(stream[i - 1])

\* Index of the last record of the run that contains record i.
RECURSIVE RunEnd(_)
RunEnd(i) ==
    IF i < Len(stream) /\ chromosome_function(stream[i + 1]) = chromosome_function(stream[i])
    THEN RunEnd(i + 1)
    ELSE i

\* The chromosome names of the runs from record i on, in stream order.
RECURSIVE RunNamesFrom(_)
RunNamesFrom(i) ==
    IF i > Len(stream) THEN <<>>
    ELSE IF RunStart(i)
         THEN <<chromosome_function(stream[i])>> \o RunNamesFrom(i + 1)
         ELSE RunNamesFrom(i + 1)

RunNames == RunNamesFrom(1)

\* The runs have pairwise distinct names.
DistinctRuns ==
    \A i, j \in 1..Len(stream) :
        (RunStart(i) /\ RunStart(j) /\ i # j)
            => chromosome_function(stream[i]) # chromosome_function(stream[j])

\* The positions of the records i..j are strictly increasing.
Increasing(i, j) ==
    \A k \in i..(j - 1) :
        position_function(stream[k]) < position_function(stream[k + 1])

\* Positions are strictly increasing inside every run.
IncreasingRuns ==
    \A i \in 1..Len(stream) : RunStart(i) => Increasing(i, RunEnd(i))

\* A view is open: the iterator is on a window with its closure installed.
ViewOpen == phase = "iterating" /\ get_element.set

\* ---------------------------------------------------------------------------
\*     Claims
\* ---------------------------------------------------------------------------

\* C1: for a stream of k contiguous runs with pairwise distinct names and
\* strictly increasing positions in each run, a traversal that pulls every
\* view to its sentinel and reaches the end without error has yielded exactly
\* k views, the i-th one for the i-th run.
C1_ViewPerRun ==
    (/\ phase = "iterating"
     /\ ~ parent_
     /\ ~ failed
     /\ ~ abandoned
     /\ DistinctRuns
     /\ IncreasingRuns)
        => views = RunNames

\* C2: a view opened on a valid run of n records (increasing positions, and
\* within the dictionary length if there is one) returns the records
\* opened, opened + 1, ... in this order, never more than n, and the pull that
\* does not return a record is the pull n + 1 and returns the sentinel.
ValidRun(i) ==
    /\ Increasing(i, RunEnd(i))
    /\ sequence_dict_.set =>
           position_function(stream[RunEnd(i)]) <= sequence_dict_.length[window_.chromosome]

C2_PullsReturnRun ==
    (ViewOpen /\ RunStart(opened) /\ ValidRun(opened)) =>
        LET n == RunEnd(opened) - opened + 1
        IN  /\ Len(returned) <= n
            /\ \A k \in 1..Len(returned) : returned[k] = opened + k - 1
            /\ done => Len(returned) = n
            /\ (result.op = "pull" /\ result.out # "record")
                   => (result.out = "sentinel" /\ Len(returned) = n)

C2_Witness ==
    /\ ViewOpen /\ ValidRun(opened)
    /\ done
    /\ result.out = "sentinel"
    /\ Len(returned) = 2
    /\ current_ # end_

\* C3: the positions returned by the pulls of a view are strictly increasing;
\* the second record of a pair with old_pos >= new_pos is never returned: the
\* pull that reaches it raises OutOfOrderPosition, after every earlier record
\* of the run has been returned.
BadPair(i) ==
    /\ i + 1 <= Len(stream)
    /\ chromosome_function(stream[i]) = chromosome_function(stream[i + 1])
    /\ position_function(stream[i]) >= position_function(stream[i + 1])

C3_OrderChecked ==
    ViewOpen =>
        /\ \A k \in 1..(Len(returned) - 1) :
               position_function(stream[returned[k]]) < position_function(stream[returned[k + 1]])
        /\ \A k \in 1..Len(returned) :
               returned[k] > opened => ~ BadPair(returned[k] - 1)
        /\ (result.op = "pull" /\ result.out = "OutOfOrderPosition") =>
               /\ BadPair(current_ - 1)
               /\ returned = [k \in 1..(current_ - opened) |-> opened + k - 1]
        /\ (result.op = "pull" /\ result.out # "record" /\ Len(returned) > 0
                /\ BadPair(returned[Len(returned)])) =>
               result.out = "OutOfOrderPosition"

C3_Witness ==
    /\ ViewOpen
    /\ result.op = "pull" /\ result.out = "OutOfOrderPosition"
    /\ Len(returned) = 2
    /\ position_function(stream[current_]) = position_function(stream[current_ - 1])

\* C4: when the cursor of begin() or operator++ lands on the first record of
\* a run whose chromosome already had an earlier run, the call raises
\* DuplicateChromosome, and no chromosome is yielded twice.
EarlierRun(i) ==
    \E j \in 1..(i - 1) :
        /\ chromosome_function(stream[j]) = chromosome_function(stream[i])
        /\ RunEnd(j) < i

C4_DuplicateRaised ==
    /\ (/\ result.op \in {"begin", "advance"}
        /\ current_ # end_
        /\ EarlierRun(current_))
           => result.out = "DuplicateChromosome"
    /\ \A i, j \in 1..Len(views) : i # j => views[i] # views[j]

\* C5: when operator++ is called on a view that has not returned its
\* sentinel, after any number of pulls, the cursor lands on the first record
\* after the run of that view: the iterator is exhausted if there is none,
\* and otherwise, unless the call raises an error (which it does not on a
\* stream of distinct runs known to the dictionary), a new view is opened
\* there, whose first pull returns that record. No view returns a record from
\* before the record it was opened on, and on a valid stream the chromosomes
\* yielded are those of a traversal that pulls every view to its sentinel.
InDict(chr) == sequence_dict_.set => chr \in DOMAIN sequence_dict_.length

\* The chromosomes yielded from the cursor c on by a traversal of a valid
\* stream that pulls every view to its sentinel (which leaves the cursor on
\* the first record after the run).
RECURSIVE FullyConsumedViews(_, _, _, _)
FullyConsumedViews(c, w, g, p) ==
    LET r == increment_(c, w, g, p)
    IN  IF r.out = "view"
        THEN <<r.window.chromosome>>
                 \o FullyConsumedViews(RunEnd(r.current) + 1, r.window, r.get_element, r.processed)
        ELSE <<>>

ValidStream ==
    /\ DistinctRuns
    /\ IncreasingRuns
    /\ \A i \in 1..Len(stream) :
           /\ InDict(chromosome_function(stream[i]))
           /\ sequence_dict_.set =>
                  position_function(stream[i]) <= sequence_dict_.length[chromosome_function(stream[i])]

IsPrefix(s, t) == Len(s) <= Len(t) /\ \A k \in 1..Len(s) : s[k] = t[k]

C5_AbandonStep ==
    (ViewOpen /\ parent_ /\ ~ done /\ ~ failed /\ Advance) =>
        LET nxt == RunEnd(opened) + 1
        IN  /\ current_' = nxt
            /\ nxt = end_ => (result'.out = "exhausted" /\ ~ parent_' /\ views' = views)
            /\ nxt # end_ => result'.out # "exhausted"
            /\ (nxt # end_ /\ result'.out \notin Errors) =>
                   /\ result'.out = "view"
                   /\ opened' = nxt
                   /\ get_element'.set /\ get_element'.is_first
                   /\ returned' = <<>>
                   /\ views' = Append(views, chromosome_function(stream[nxt]))
            /\ (nxt # end_ /\ DistinctRuns /\ InDict(chromosome_function(stream[nxt])))
                   => result'.out = "view"

C5_FirstPullStep ==
    (ViewOpen /\ get_element.is_first /\ ConsumerPull) =>
        (result'.out = "record" /\ result'.rec = opened /\ returned' = <<opened>>)

C5_NoLeakStep ==
    /\ \A k \in 1..Len(returned') : returned'[k] >= opened'
    /\ ValidStream =>
           LET full == FullyConsumedViews(1, DefaultWindow, NoElementFunction, {})
           IN  /\ IsPrefix(views', full)
               /\ (phase' = "iterating" /\ ~ parent_') => views' = full

C7_ReferenceBounds ==
    (ViewOpen /\ sequence_dict_.set) =>
        LET L == sequence_dict_.length[window_.chromosome]
        IN  /\ window_.first_position = 1
            /\ window_.last_position = L
            /\ (result.op = "pull" /\ result.out = "ChromosomeLengthExceeded")
                   => position_function(stream[current_ - 1]) > L
            /\ (/\ result.op = "pull"
                /\ Increasing(opened, RunEnd(opened))
                /\ position_function(stream[RunEnd(opened)]) <= L)
                   => result.out \in {"record", "sentinel"}

\* A run of two records ending exactly at the length of its chromosome has
\* been pulled to its sentinel.
C7_Witness ==
    /\ ViewOpen /\ sequence_dict_.set
    /\ done
    /\ Len(returned) = 2
    /\ position_function(stream[RunEnd(opened)]) = sequence_dict_.length[window_.chromosome]

\* C8: with a dictionary, the pull that moves the cursor past the last record
\* of the run raises ChromosomeLengthExceeded if that record's position is
\* above the length of the chromosome, and the sentinel is never returned for
\* such a run.
C8_LengthChecked ==
    (ViewOpen /\ sequence_dict_.set
        /\ position_function(stream[RunEnd(opened)]) > sequence_dict_.length[window_.chromosome]) =>
        /\ ~ done
        /\ (result.op = "pull" /\ current_ = RunEnd(opened) + 1)
               => result.out = "ChromosomeLengthExceeded"

C8_Witness ==
    /\ ViewOpen /\ sequence_dict_.set
    /\ result.op = "pull" /\ result.out = "ChromosomeLengthExceeded"
    /\ Len(returned) = 2
    /\ current_ # end_

\* C9: on an empty stream begin() returns an iterator that is at its end
\* (parent_ is null, as for end()), without a view and without an error.
C9_EmptyStream ==
    (stream = <<>> /\ phase # "constructed") =>
        /\ phase = "iterating"
        /\ parent_ = EndIteratorParent
        /\ result = [op |-> "begin", out |-> "exhausted", rec |-> 0]
        /\ views = <<>>
        /\ ~ get_element.set
        /\ ~ failed

C9_Witness == stream = <<>> /\ phase = "iterating" /\ result.op = "begin"

\* C10: with a dictionary, when begin() or operator++ lands on a record whose
\* chromosome the dictionary does not contain, the call raises
\* UnknownChromosome; no view is yielded for such a chromosome and the window
\* left behind has no get_element, so that no pull returns a record of it.
C10_UnknownChromosome ==
    sequence_dict_.set =>
        /\ (/\ result.op \in {"begin", "advance"}
            /\ current_ # end_
            /\ chromosome_function(stream[current_]) \notin DOMAIN sequence_dict_.length)
               => (result.out = "UnknownChromosome" /\ ~ get_element.set)
        /\ \A k \in 1..Len(views) : views[k] \in DOMAIN sequence_dict_.length
        /\ get_element.set => get_element.chr \in DOMAIN sequence_dict_.length
        /\ \A k \in 1..Len(returned) :
               chromosome_function(stream[returned[k]]) \in DOMAIN sequence_dict_.length

C10_Witness ==
    /\ sequence_dict_.set
    /\ result.op = "advance" /\ result.out = "UnknownChromosome"
    /\ Len(views) = 1
    /\ ~ get_element.set

\* C11: on a stream of runs with pairwise distinct names and strictly
\* increasing positions in each run, with every chromosome in the dictionary
\* (if there is one) at a length not below its positions, no call of a
\* consumer that pulls each view at most until its sentinel raises an error.
C11_NoFalseAlarm ==
    ValidStream =>
        /\ ~ failed
        /\ raised = {}
        /\ result.out \in {"none", "exhausted", "view", "record", "sentinel"}

\* Two runs, the second one starting at a lower position than the first one
\* ended at, traversed to the end of the stream with a dictionary.
C11_Witness ==
    /\ ValidStream
    /\ sequence_dict_.set
    /\ phase = "iterating" /\ ~ parent_
    /\ Len(views) = 2
    /\ ~ abandoned
    /\ \E i \in 1..(Len(stream) - 1) :
           /\ RunStart(i + 1)
           /\ position_function(stream[i + 1]) < position_function(stream[i])

\* C12: once a pull of a view has raised OutOfOrderPosition or
\* ChromosomeLengthExceeded, no later pull of that view returns a record and
\* no later operator++ opens a new view (pulls with undefined behaviour set
\* aside).
C12_PullErrorStep ==
    /\ (broken /\ Pull /\ phase' = "iterating") => result'.out # "record"
    /\ (raised \cap {"OutOfOrderPosition", "ChromosomeLengthExceeded"} # {} /\ Advance)
           => result'.out # "view"

C12_StopsAfterPullError == [][C12_PullErrorStep]_vars

\* C13: once begin() or operator++ has raised DuplicateChromosome or
\* UnknownChromosome, no later operator++ opens a new view and no later pull
\* returns a record (pulls with undefined behaviour set aside).
C13_AdvanceErrorStep ==
    (raised \cap {"DuplicateChromosome", "UnknownChromosome"} # {}) =>
        /\ Advance => result'.out # "view"
        /\ (Pull /\ phase' = "iterating") => result'.out # "record"

C13_StopsAfterAdvanceError == [][C13_AdvanceErrorStep]_vars

\* C14: whenever the cursor has moved past the first record of a pair of
\* successive records with old_pos >= new_pos of a chromosome that a view was
\* opened for, by a pull or by the skip loop of operator++,
\* OutOfOrderPosition has been raised.
C14_OrderCheckedOnEveryPath ==
    \A i \in 1..Len(stream) :
        (/\ BadPair(i)
         /\ chromosome_function(stream[i]) \in processed_chromosomes_
         /\ phase = "iterating"
         /\ current_ > i)
            => "OutOfOrderPosition" \in raised

\* C15 as stated: with a dictionary, every record returned by a pull of a
\* view has a position not above the last_position of the view.
C15_ReturnedWithinLength ==
    (ViewOpen /\ sequence_dict_.set) =>
        \A k \in 1..Len(returned) :
            position_function(stream[returned[k]]) <= window_.last_position

\* C15 as amended: with a dictionary, once a view has returned its sentinel
\* in a traversal without error, every record it returned has a position not
\* above its last_position; a position above it is reported by the pull at
\* the end of the run, after the record was returned.
C15_ReturnedWithinLengthAtSentinel ==
    (ViewOpen /\ sequence_dict_.set /\ done /\ ~ failed) =>
        \A k \in 1..Len(returned) :
            position_function(stream[returned[k]]) <= window_.last_position

C15_Witness ==
    /\ ViewOpen /\ sequence_dict_.set /\ done /\ ~ failed
    /\ Len(returned) = 2
    /\ window_.last_position = 2

C17_PullStep ==
    Pull =>
        /\ get_element.is_first => current_' = current_
        /\ ~ get_element.is_first => current_' = current_ + 1
        /\ result'.out = "record" => current_' = result'.rec
        /\ result'.out = "sentinel" =>
               /\ current_' = RunEnd(opened) + 1
               /\ current_' # end_ => RunStart(current_')

C17_OneRecordLookahead == [][C17_PullStep]_vars

\* The sentinel of a run of two records, with the cursor on the next run.
C17_Witness ==
    /\ ViewOpen /\ done
    /\ result.op = "pull" /\ result.out = "sentinel"
    /\ opened = 1
    /\ current_ = 3
    /\ current_ # end_

\* C18: once a view has returned the sentinel, a later pull of it returns no
\* record, leaves the cursor where it is and leaves last_position as it is
\* (pulls with undefined behaviour set aside).
C18_InertStep ==
    (ViewOpen /\ done /\ Pull /\ phase' = "iterating") =>
        /\ result'.out # "record"
        /\ current_' = current_
        /\ window_'.last_position = window_.last_position

C18_InertAfterSentinel == [][C18_InertStep]_vars

\* C19: every record returned by a view, up to its sentinel, is of the
\* chromosome of the view, which is the chromosome the view was opened for
\* and the one its closure compares with.
C19_NoLeakage ==
    ViewOpen =>
        /\ \A k \in 1..Len(returned) :
               chromosome_function(stream[returned[k]]) = window_.chromosome
        /\ window_.chromosome = chromosome_function(stream[opened])
        /\ window_.chromosome = get_element.chr
        /\ window_.chromosome = views[Len(views)]

\* The second view, after its sentinel, followed by a third run.
C19_Witness ==
    /\ ViewOpen /\ done
    /\ Len(views) = 2
    /\ Len(returned) = 1
    /\ current_ # end_

\* C20: begin() on a non-empty stream, unless it raises an error, opens a
\* view on the first record of the stream, for the chromosome of that record.
C20_BeginOnFirstRecord ==
    (result.op = "begin" /\ stream # <<>> /\ result.out \notin Errors) =>
        /\ result.out = "view"
        /\ opened = 1
        /\ current_ = 1
        /\ window_.chromosome = chromosome_function(stream[1])

\* C21: with a dictionary, whenever the cursor has moved past a run of an
\* opened view that contains a position above the declared length of its
\* chromosome, ChromosomeLengthExceeded has been raised, also when the view
\* was abandoned and the rest of the run was skipped by operator++.
C21_OverCoverageForbidden ==
    \A i \in 1..Len(stream) :
        (/\ sequence_dict_.set
         /\ phase = "iterating"
         /\ chromosome_function(stream[i]) \in processed_chromosomes_
         /\ chromosome_function(stream[i]) \in DOMAIN sequence_dict_.length
         /\ position_function(stream[i]) > sequence_dict_.length[chromosome_function(stream[i])]
         /\ current_ > RunEnd(i))
            => "ChromosomeLengthExceeded" \in raised

\* C22: after every begin() or operator++ that returns without error, either
\* the iterator is at its end and the cursor is at the end of the stream, or
\* the cursor is on the first record of a run and the window has the
\* chromosome of that record.
C22_AfterAdvance ==
    (/\ result.op \in {"begin", "advance"}
     /\ result.out \notin Errors
     /\ phase = "iterating") =>
        \/ ~ parent_ /\ current_ = end_
        \/ /\ parent_
           /\ current_ # end_
           /\ RunStart(current_)
           /\ window_.chromosome = chromosome_function(stream[current_])

\* The second view has just been opened after the first one was abandoned in
\* the middle of a run of two records.
C22_Witness ==
    /\ result.op = "advance" /\ result.out = "view"
    /\ abandoned
    /\ current_ = 3
    /\ parent_

\* C23: the cursor never moves backward; a pull moves it by at most one
\* record; begin() and operator++ move it only over records of the window's
\* chromosome; and an iterator that has reached its end has the cursor at the
\* end of the stream, so that every record has been stepped over once.
C23_CursorStep ==
    /\ current_' >= current_
    /\ Pull => current_' \in {current_, current_ + 1}
    /\ (Begin \/ Advance) =>
           \A k \in current_..(current_' - 1) :
               chromosome_function(stream[k]) = window_.chromosome
    /\ (phase' = "iterating" /\ ~ parent_') => current_' = end_

C23_SinglePass == [][C23_CursorStep]_vars

\* The end is reached after one view was pulled to its sentinel and a second
\* one was abandoned with a record left to skip.
C23_Witness ==
    /\ phase = "iterating" /\ ~ parent_
    /\ result.op = "advance" /\ result.out = "exhausted"
    /\ abandoned
    /\ Len(views) = 2
    /\ opened = 2
    /\ Len(stream) = 3
    /\ ~ failed

\* Fair traversal: the consumer keeps calling begin(), pull and operator++
\* as long as the protocol allows a call.
SpecLive == Init /\ [][Next]_vars /\ WF_vars(Next)

\* The traversal is over: the iterator is at its end, or a call has raised.
Terminated ==
    \/ phase = "destroyed"
    \/ failed
    \/ phase = "iterating" /\ ~ parent_

\* C24: every traversal of a consumer that keeps calling reaches the end or
\* raises an error; a view over a run of n records returns at most n records
\* before its sentinel or error, that is, it ends within n + 1 pulls; and
\* operator++ moves the cursor at most to the first record after the current
\* run.
C24_Termination ==
    /\ <> Terminated
    /\ [] (ViewOpen => Len(returned) <= RunEnd(opened) - opened + 1)
    /\ [][ (Advance /\ get_element.set) => current_' <= RunEnd(opened) + 1 ]_vars

\* A traversal of three runs that has reached the end without error.
C24_Witness ==
    /\ Terminated /\ ~ failed
    /\ Len(views) = 3
    /\ current_ = end_

\* C25: every view yielded is flagged as first and as last window of its
\* chromosome: the flags are true from begin() on and after every operator++.
C25_FirstAndLastWindow ==
    phase = "iterating" => (is_first_window_ /\ is_last_window_)

\* The third view of a traversal.
C25_Witness ==
    /\ ViewOpen
    /\ Len(views) = 3
    /\ result.op = "advance"
    /\ is_first_window_ /\ is_last_window_

\* C26: after a view has been pulled to its sentinel without error, every
\* position p it returned has 1 <= first_position <= p <= last_position, with
\* and without a dictionary; without a dictionary last_position is the
\* largest position returned.
C26_BoundsContainPositions ==
    (ViewOpen /\ done /\ ~ failed) =>
        /\ \A k \in 1..Len(returned) :
               /\ position_function(stream[returned[k]]) >= 1
               /\ window_.first_position <= position_function(stream[returned[k]])
               /\ position_function(stream[returned[k]]) <= window_.last_position
        /\ ~ sequence_dict_.set =>
               \E k \in 1..Len(returned) :
                   /\ window_.last_position = position_function(stream[returned[k]])
                   /\ \A j \in 1..Len(returned) :
                          position_function(stream[returned[j]])
                              <= position_function(stream[returned[k]])

\* The second view, without a dictionary, after returning positions 1 and 2.
C26_Witness ==
    /\ ViewOpen /\ done /\ ~ failed
    /\ ~ sequence_dict_.set
    /\ Len(views) = 2
    /\ Len(returned) = 2
    /\ window_.last_position = 2

\* The chromosome names of the views opened so far.
ViewNames == {views[k] : k \in 1..Len(views)}

\* C27 as stated: the set of processed chromosomes always equals the set of
\* chromosome names of the views opened so far.
C27_ProcessedAreViews ==
    phase = "iterating" => processed_chromosomes_ = ViewNames

\* C27, amended: the set of processed chromosomes holds the name of every
\* view opened so far, from the call that opens the view on; it equals the
\* set of these names until an operator++ raises UnknownChromosome, which has
\* inserted the name missing in the dictionary without opening a view.
C27_ProcessedAreViewsOrUnknown ==
    phase = "iterating" =>
        /\ ViewNames \subseteq processed_chromosomes_
        /\ ViewOpen => window_.chromosome \in processed_chromosomes_
        /\ "UnknownChromosome" \notin raised => processed_chromosomes_ = ViewNames
        /\ "UnknownChromosome" \in raised =>
               /\ processed_chromosomes_ = ViewNames \cup {window_.chromosome}
               /\ window_.chromosome \notin ViewNames

\* The second view has just been opened and not been pulled yet, with a
\* third run to come.
C27_Witness ==
    /\ ViewOpen
    /\ result.op = "advance" /\ result.out = "view"
    /\ Len(views) = 2
    /\ Cardinality(processed_chromosomes_) = 2
    /\ current_ = 2
    /\ Len(stream) = 3

\* C28: an operator++ that raises DuplicateChromosome leaves the processed
\* set, the window and its closure as they were and the cursor where the
\* skip loop has left it, on the first record of the repeated run; the same
\* call made again raises DuplicateChromosome again and changes nothing.
C28_DuplicateStep ==
    (Advance /\ result'.out = "DuplicateChromosome") =>
        /\ processed_chromosomes_' = processed_chromosomes_
        /\ window_' = window_
        /\ get_element' = get_element
        /\ parent_'
        /\ current_' = SkipChromosome(current_, window_.chromosome)
        /\ current_' # end_
        /\ RunStart(current_')
        /\ chromosome_function(stream[current_']) \in processed_chromosomes_'
        /\ LET again == increment_(current_', window_', get_element',
                                   processed_chromosomes_')
           IN  /\ again.out = "DuplicateChromosome"
               /\ again.current = current_'
               /\ again.window = window_'
               /\ again.processed = processed_chromosomes_'

C28_DuplicateLeavesState == [][C28_DuplicateStep]_vars

\* DuplicateChromosome was raised by the operator++ that left a view which
\* had been pulled to its sentinel.
C28_Witness ==
    /\ result.op = "advance" /\ result.out = "DuplicateChromosome"
    /\ done
    /\ Len(views) = 2
    /\ current_ = 3

\* C29: base64 round trip: decoding the encoding of a byte string gives the
\* byte string back, for every line_length, also when the encoded string
\* ends with a new line (executions with undefined behaviour set aside).
C29_RoundTrip ==
    (base64.op = "decode" /\ ~ base64.undefined) =>
        /\ base64.out = "ok"
        /\ decoded = input

====
